---- MODULE Spec2Model ----
(***************************************************************************)
(* Jira-Commit-Message: the message transformation (getExtensionConfig,    *)
(* extractCurrentMessage, getCommitMessage, updateCommitMessage) and the   *)
(* watcher lifecycle of activate().                                        *)
(*                                                                         *)
(* Strings are sequences of one-character strings.  Regular expressions    *)
(* are compiled from their source text into a token sequence and executed  *)
(* by a backtracking matcher with JavaScript's priorities (leftmost start, *)
(* greedy quantifiers).  The supported syntax is what the configurations   *)
(* of this model use: literals, escapes, \d, \s, ., ^, $, the quantifiers  *)
(* * and + on a single atom, and non-nested capturing groups.              *)
(***************************************************************************)
EXTENDS Integers, Sequences, FiniteSets, TLC

(***************************************************************************)
(* Characters and strings                                                  *)
(***************************************************************************)
BS == "\\"

Digits == {"0", "1", "2", "3", "4", "5", "6", "7", "8", "9"}

WhiteSpace == {" ", "\t", "\n"}

\* ToString(undefined), as template literals and replace() render it
Undefined == <<"u", "n", "d", "e", "f", "i", "n", "e", "d">>

\* s.startsWith(p, i): p occurs in s at index i (1-based)
OccursAt(s, p, i) ==
  /\ i >= 1
  /\ i + Len(p) - 1 <= Len(s)
  /\ \A k \in 1..Len(p) : s[i + k - 1] = p[k]

\* s.indexOf(p): the first index at which p occurs, 0 if none
IndexOf(s, p) ==
  LET hits == {i \in 1..(Len(s) + 1) : OccursAt(s, p, i)}
  IN  IF hits = {} THEN 0 ELSE CHOOSE i \in hits : \A j \in hits : i <= j

\* String.prototype.trim
Trim(s) ==
  LET keep == {i \in 1..Len(s) : s[i] \notin WhiteSpace}
  IN  IF keep = {} THEN <<>>
      ELSE LET lo == CHOOSE i \in keep : \A j \in keep : i <= j
               hi == CHOOSE i \in keep : \A j \in keep : i >= j
           IN  SubSeq(s, lo, hi)

(***************************************************************************)
(* new RegExp(source): compilation of a pattern source into tokens.        *)
(* A token is an atom with a quantifier q ("1", "*" or "+"), a group       *)
(* boundary, or an assertion.  ok = FALSE is the SyntaxError.              *)
(***************************************************************************)
Quant(src, j) ==
  IF j <= Len(src) /\ src[j] \in {"*", "+"} THEN src[j] ELSE "1"

QLen(q) == IF q = "1" THEN 0 ELSE 1

SyntaxError == [ok |-> FALSE, toks |-> <<>>]

RECURSIVE Parse(_, _, _, _)
Parse(src, i, toks, depth) ==
  IF i > Len(src) THEN
    IF depth = 0 THEN [ok |-> TRUE, toks |-> toks] ELSE SyntaxError
  ELSE
    LET c == src[i] IN
    CASE c = "(" ->
           Parse(src, i + 1, Append(toks, [t |-> "open"]), depth + 1)
      [] c = ")" ->
           IF depth = 0 THEN SyntaxError
           ELSE Parse(src, i + 1, Append(toks, [t |-> "close"]), depth - 1)
      [] c = "^" ->
           Parse(src, i + 1, Append(toks, [t |-> "bol"]), depth)
      [] c = "$" ->
           Parse(src, i + 1, Append(toks, [t |-> "eol"]), depth)
      [] c \in {"*", "+"} ->
           SyntaxError   \* nothing to repeat
      [] c = BS ->
           IF i = Len(src) THEN SyntaxError
           ELSE LET e == src[i + 1]
                    q == Quant(src, i + 2)
                    a == CASE e = "d" -> [t |-> "dig", q |-> q]
                           [] e = "s" -> [t |-> "spc", q |-> q]
                           [] OTHER   -> [t |-> "chr", c |-> e, q |-> q]
                IN  Parse(src, i + 2 + QLen(q), Append(toks, a), depth)
      [] c = "." ->
           LET q == Quant(src, i + 1)
           IN  Parse(src, i + 1 + QLen(q),
                     Append(toks, [t |-> "any", q |-> q]), depth)
      [] OTHER ->
           LET q == Quant(src, i + 1)
           IN  Parse(src, i + 1 + QLen(q),
                     Append(toks, [t |-> "chr", c |-> c, q |-> q]), depth)

RegExp(src) == Parse(src, 1, <<>>, 0)

(***************************************************************************)
(* RegExp.prototype.exec: backtracking match.  Positions are 1-based       *)
(* indexes of the next character; a capture is [from, to) and to = 0 marks *)
(* a group that did not take part.                                         *)
(***************************************************************************)
AtomMatches(tok, ch) ==
  CASE tok.t = "dig" -> ch \in Digits
    [] tok.t = "spc" -> ch \in WhiteSpace
    [] tok.t = "any" -> ch # "\n"
    [] tok.t = "chr" -> ch = tok.c

\* the longest run of characters from pos that the atom matches
RECURSIVE Run(_, _, _)
Run(tok, s, pos) ==
  IF pos <= Len(s) /\ AtomMatches(tok, s[pos]) THEN 1 + Run(tok, s, pos + 1)
  ELSE 0

NoMatch == [ok |-> FALSE, end |-> 0, caps |-> <<>>]

\* the most characters an atom with quantifier q takes from a run
MaxCount(q, run) == IF q = "1" THEN (IF run >= 1 THEN 1 ELSE 0) ELSE run

RECURSIVE MatchAt(_, _, _, _, _)
RECURSIVE TryCount(_, _, _, _, _, _, _)
MatchAt(toks, k, s, pos, caps) ==
  IF k > Len(toks) THEN [ok |-> TRUE, end |-> pos, caps |-> caps]
  ELSE
    LET tok == toks[k] IN
    CASE tok.t = "open" ->
           MatchAt(toks, k + 1, s, pos, Append(caps, [from |-> pos, to |-> 0]))
      [] tok.t = "close" ->
           MatchAt(toks, k + 1, s, pos, [caps EXCEPT ![Len(caps)].to = pos])
      [] tok.t = "bol" ->
           IF pos = 1 THEN MatchAt(toks, k + 1, s, pos, caps) ELSE NoMatch
      [] tok.t = "eol" ->
           IF pos = Len(s) + 1 THEN MatchAt(toks, k + 1, s, pos, caps)
           ELSE NoMatch
      [] OTHER ->
           TryCount(toks, k, s, pos, caps,
                    MaxCount(tok.q, Run(tok, s, pos)),
                    IF tok.q = "*" THEN 0 ELSE 1)

\* greedy: the largest count first, then back off
RECURSIVE BackOff(_, _, _, _, _, _, _, _)
TryCount(toks, k, s, pos, caps, n, lo) ==
  IF n < lo THEN NoMatch
  ELSE BackOff(toks, k, s, pos, caps, n, lo,
               MatchAt(toks, k + 1, s, pos + n, caps))

BackOff(toks, k, s, pos, caps, n, lo, r) ==
  IF r.ok THEN r ELSE TryCount(toks, k, s, pos, caps, n - 1, lo)

\* leftmost match: [ok, from, end, caps]; r is the attempt at start
RECURSIVE ExecFrom(_, _, _)
RECURSIVE ExecNext(_, _, _, _)
ExecFrom(toks, s, start) ==
  IF start > Len(s) + 1 THEN [ok |-> FALSE, from |-> 0, end |-> 0, caps |-> <<>>]
  ELSE ExecNext(toks, s, start, MatchAt(toks, 1, s, start, <<>>))

ExecNext(toks, s, start, r) ==
  IF r.ok THEN [ok |-> TRUE, from |-> start, end |-> r.end, caps |-> r.caps]
  ELSE ExecFrom(toks, s, start + 1)

\* a RegExp object is held as its source text and compiled where it is used
Exec(re, s) == ExecFrom(RegExp(re).toks, s, 1)

\* RegExp.prototype.test
Test(re, s) == Exec(re, s).ok

\* match[n] of String.prototype.match: the capture, or undefined
Group(m, s, n) ==
  IF n <= Len(m.caps) /\ m.caps[n].to # 0
  THEN SubSeq(s, m.caps[n].from, m.caps[n].to - 1)
  ELSE Undefined

(***************************************************************************)
(* String.prototype.replace: the replacement text is a template in which   *)
(* $$, $&, $`, $' and $n (n a group of the match) are substituted.         *)
(***************************************************************************)
RECURSIVE Expand(_, _, _, _, _, _)
Expand(tpl, i, s, from, end, caps) ==
  IF i > Len(tpl) THEN <<>>
  ELSE IF tpl[i] = "$" /\ i < Len(tpl) THEN
    LET d == tpl[i + 1] IN
    CASE d = "$" -> <<"$">> \o Expand(tpl, i + 2, s, from, end, caps)
      [] d = "&" -> SubSeq(s, from, end - 1) \o Expand(tpl, i + 2, s, from, end, caps)
      [] d = "`" -> SubSeq(s, 1, from - 1) \o Expand(tpl, i + 2, s, from, end, caps)
      [] d = "'" -> SubSeq(s, end, Len(s)) \o Expand(tpl, i + 2, s, from, end, caps)
      [] d \in {"1", "2", "3"} ->
           LET n == CHOOSE k \in 1..3 : ToString(k) = d IN
           IF n <= Len(caps)
           THEN (IF caps[n].to = 0 THEN <<>>
                 ELSE SubSeq(s, caps[n].from, caps[n].to - 1))
                \o Expand(tpl, i + 2, s, from, end, caps)
           ELSE <<"$">> \o Expand(tpl, i + 1, s, from, end, caps)
      [] OTHER -> <<"$">> \o Expand(tpl, i + 1, s, from, end, caps)
  ELSE <<tpl[i]>> \o Expand(tpl, i + 1, s, from, end, caps)

\* the match m of s replaced by the expanded template
Splice(s, m, tpl) ==
  IF ~m.ok THEN s
  ELSE SubSeq(s, 1, m.from - 1)
       \o Expand(tpl, 1, s, m.from, m.end, m.caps)
       \o SubSeq(s, m.end, Len(s))

\* s.replace(regexp, template), regexp without the g flag: the first match
ReplaceRe(s, re, tpl) == Splice(s, Exec(re, s), tpl)

\* the occurrence of a string at index i (0: none) as a match without groups
StrMatch(pat, i) ==
  [ok |-> i # 0, from |-> i, end |-> i + Len(pat), caps |-> <<>>]

\* s.replace(string, template): the first occurrence of the string
ReplaceStr(s, pat, tpl) == Splice(s, StrMatch(pat, IndexOf(s, pat)), tpl)

\* s.replace(/[\[\]]/g, "\\$&").replace(/\$/g, "\\$")
RECURSIVE EscapeChars(_, _)
EscapeChars(s, cs) ==
  IF s = <<>> THEN <<>>
  ELSE (IF Head(s) \in cs THEN <<BS, Head(s)>> ELSE <<Head(s)>>)
       \o EscapeChars(Tail(s), cs)

(***************************************************************************)
(* Configuration Resolver                                                  *)
(***************************************************************************)
PrefixPlaceholder == <<"$", "{", "p", "r", "e", "f", "i", "x", "}">>

MessagePlaceholder == <<"$", "{", "m", "e", "s", "s", "a", "g", "e", "}">>

\* tagPattern.match(/\(([^)]+)\)/): the text between the first "(" that is
\* followed by at least one character other than ")" and the next ")"
FirstGroup(src) ==
  LET closeOf(i) ==
        LET cl == {j \in (i + 1)..Len(src) : src[j] = ")"}
        IN  IF cl = {} THEN 0 ELSE CHOOSE j \in cl : \A k \in cl : j <= k
      starts == {i \in 1..Len(src) : src[i] = "(" /\ closeOf(i) >= i + 2}
  IN  IF starts = {} THEN [ok |-> FALSE, inner |-> <<>>]
      ELSE LET i == CHOOSE x \in starts : \A y \in starts : x <= y
           IN  [ok |-> TRUE, inner |-> SubSeq(src, i + 1, closeOf(i) - 1)]

\* const prefixPattern = match ? match[1] : tagPattern
PrefixPattern(tagPattern, match) ==
  IF match.ok THEN match.inner ELSE tagPattern

\* the source text of outdatedPrefixPattern
OutdatedSource(prefixPattern, msgFormat) ==
  EscapeChars(
    EscapeChars(
      ReplaceStr(
        ReplaceStr(msgFormat, PrefixPlaceholder,
                   <<"(">> \o prefixPattern \o <<")">>),
        MessagePlaceholder, <<"(", ".", "*", ")">>),
      {"[", "]"}),
    {"$"})

\* the returned ExtensionConfig; ok = FALSE: one of the new RegExp(...) threw
ExtensionConfig(tagPattern, msgFormat, outdatedPrefixPattern) ==
  [ok |-> RegExp(tagPattern).ok /\ RegExp(outdatedPrefixPattern).ok,
   commitMessagePrefixPattern |-> tagPattern,
   commitMessageFormat |-> msgFormat,
   outdatedPrefixPattern |-> outdatedPrefixPattern]

getExtensionConfig(tagPattern, msgFormat) ==
  ExtensionConfig(
    tagPattern,
    msgFormat,
    OutdatedSource(PrefixPattern(tagPattern, FirstGroup(tagPattern)), msgFormat))

(***************************************************************************)
(* Message Synchronizer                                                    *)
(***************************************************************************)
\* repo.inputBox.value.replace(config.outdatedPrefixPattern, "$2")
extractCurrentMessage(value, config) ==
  ReplaceRe(value, config.outdatedPrefixPattern, <<"$", "2">>)

\* the source of new RegExp(`^\\[${prefix}\\]\\s`)
PrefixRegexSource(prefix) ==
  <<"^", BS, "[">> \o prefix \o <<BS, "]", BS, "s">>

\* the rendered message: commitMessageFormat with both placeholders replaced
Render(format, prefix, message) ==
  ReplaceStr(ReplaceStr(format, PrefixPlaceholder, prefix),
             MessagePlaceholder, message)

\* currentMessage.replace(config.outdatedPrefixPattern, "").trim()
WithoutExistingPrefix(currentMessage, config) ==
  Trim(ReplaceRe(currentMessage, config.outdatedPrefixPattern, <<>>))

\* getCommitMessage from the prefixRegex construction on
TagMessage(currentMessage, config, prefix, prefixRegex) ==
  IF ~RegExp(prefixRegex).ok THEN [threw |-> TRUE, value |-> currentMessage]
  ELSE IF Test(prefixRegex, currentMessage)
  THEN [threw |-> FALSE, value |-> currentMessage]
  ELSE [threw |-> FALSE,
        value |-> Render(config.commitMessageFormat, prefix,
                         WithoutExistingPrefix(currentMessage, config))]

\* getCommitMessage with prefix = prefixMatch[1]
TagWithPrefix(currentMessage, config, prefix) ==
  TagMessage(currentMessage, config, prefix, PrefixRegexSource(prefix))

\* getCommitMessage with prefixMatch = branch.match(commitMessagePrefixPattern)
TagFromMatch(branch, currentMessage, config, prefixMatch) ==
  IF ~prefixMatch.ok THEN [threw |-> FALSE, value |-> currentMessage]
  ELSE TagWithPrefix(currentMessage, config, Group(prefixMatch, branch, 1))

\* [threw, value]: threw = TRUE when the prefixRegex construction throws
getCommitMessage(branch, currentMessage, config) ==
  TagFromMatch(branch, currentMessage, config,
               Exec(config.commitMessagePrefixPattern, branch))

(***************************************************************************)
(* Inputs of the model                                                     *)
(***************************************************************************)
NumRepos == 2

Repos == 1..NumRepos

\* "(ML-\d+)-.*", the default of commitMessagePrefixPattern
PatternML == <<"(", "M", "L", "-", "\\", "d", "+", ")", "-", ".", "*">>

\* "(BY-\d+)-.*"
PatternBY == <<"(", "B", "Y", "-", "\\", "d", "+", ")", "-", ".", "*">>

\* "(.+)-.*"
PatternAny == <<"(", ".", "+", ")", "-", ".", "*">>

\* "(ML", which new RegExp rejects
PatternBad == <<"(", "M", "L">>

\* "[${prefix}] ${message}", the default of commitMessageFormat
FormatBracket == <<"[", "$", "{", "p", "r", "e", "f", "i", "x", "}", "]", " ", "$", "{", "m", "e", "s", "s", "a", "g", "e", "}">>

\* "${prefix}) ${message}", whose outdatedPrefixPattern new RegExp rejects
FormatBad == <<"$", "{", "p", "r", "e", "f", "i", "x", "}", ")", " ", "$", "{", "m", "e", "s", "s", "a", "g", "e", "}">>

Patterns == {PatternML, PatternBY, PatternAny, PatternBad}

Formats == {FormatBracket, FormatBad}

NoBranch == <<>>

\* "ML-42-x"
BranchML == <<"M", "L", "-", "4", "2", "-", "x">>

\* "BY-9-x"
BranchBY == <<"B", "Y", "-", "9", "-", "x">>

\* "B)-9", a branch whose captured prefix is no valid pattern source
BranchParen == <<"B", ")", "-", "9">>

Branches == {NoBranch, BranchML, BranchBY, BranchParen}

\* "text"
MsgText == <<"t", "e", "x", "t">>

\* "${prefix} ${message}"
FormatPlain == <<"$", "{", "p", "r", "e", "f", "i", "x", "}", " ", "$", "{", "m", "e", "s", "s", "a", "g", "e", "}">>

\* "ML-42-fix-bug"
BranchFix == <<"M", "L", "-", "4", "2", "-", "f", "i", "x", "-", "b", "u", "g">>

\* "main"
BranchMain == <<"m", "a", "i", "n">>

\* "Fix the bug"
MsgFix == <<"F", "i", "x", " ", "t", "h", "e", " ", "b", "u", "g">>

\* "[ML-7] Old work"
MsgStale == <<"[", "M", "L", "-", "7", "]", " ", "O", "l", "d", " ", "w", "o", "r", "k">>

\* "ML-7 Old work"
MsgStalePlain == <<"M", "L", "-", "7", " ", "O", "l", "d", " ", "w", "o", "r", "k">>

\* "  text ", with surrounding white space
MsgSpaced == <<" ", " ", "t", "e", "x", "t", " ">>

\* "pay $$ now"
MsgDollar == <<"p", "a", "y", " ", "$", "$", " ", "n", "o", "w">>

\* "[ML-1] text"
MsgTagged == <<"[", "M", "L", "-", "1", "]", " ", "t", "e", "x", "t">>

\* "[ML-1] $$"
MsgTaggedDollar == <<"[", "M", "L", "-", "1", "]", " ", "$", "$">>

TypedMessages == {MsgText, MsgTagged, MsgTaggedDollar}

(***************************************************************************)
(* State                                                                   *)
(***************************************************************************)
VARIABLES
  settings,       \* the workspace settings "jira-commit-message.*" (raw strings)
  config,         \* activate: let config
  initialized,    \* the git-initialized callback of activate has run
  hooked,         \* onDidOpenRepository / onDidCloseRepository are subscribed
  active,         \* context.subscriptions are not yet disposed
  repositories,   \* git.repositories, in opening order
  HEAD,           \* repo.state.HEAD?.name ?? "" of every repository
  inputBox,       \* repo.inputBox.value of every repository
  repoWatchers,   \* activate: repoWatchers, each [repo, config]
  subs,           \* live repo.state.onDidChange subscriptions per repository
  wrote,          \* repositories whose inputBox.value the last step assigned
  outputChannel,  \* the lines the last step appended to the output channel
  call,           \* the arguments of getCommitMessage applied on its own
  ret,            \* the results of its first and its repeated application
  fileWatcher     \* the RepositoryWatcher of src/src/extension.ts, which
                  \* watches .git/HEAD and the branch ref file with fs.watchFile

vars == <<settings, config, initialized, hooked, active, repositories, HEAD,
          inputBox, repoWatchers, subs, wrote, outputChannel, call, ret,
          fileWatcher>>

\* the mutable part a handler works on
Machine(head, box, ws, sb) ==
  [head |-> head, box |-> box, ws |-> ws, subs |-> sb, wrote |-> {}, log |-> <<>>]

\* outputChannel.appendLine; was is the input box value that the line
\* "Updating commit message ..." quotes, empty on the other lines
LogLine(m, line, repo, was) ==
  [m EXCEPT !.log = Append(@, [line |-> line, repo |-> repo, was |-> was])]

Log(m, line, repo) == LogLine(m, line, repo, <<>>)

\* Array.prototype.find / findIndex over repoWatchers: 0 if none
WatcherIndex(ws, repo) ==
  LET hits == {i \in 1..Len(ws) : ws[i].repo = repo}
  IN  IF hits = {} THEN 0 ELSE CHOOSE i \in hits : \A j \in hits : i <= j

RemoveAt(seq, i) == SubSeq(seq, 1, i - 1) \o SubSeq(seq, i + 1, Len(seq))

(***************************************************************************)
(* updateCommitMessage and its callers                                     *)
(***************************************************************************)
\* variant without the empty-HEAD return, for the sensitivity run of C6
HeadNeverEmpty(branch) == FALSE

\* if (!branch)
HeadIsEmpty(branch) == branch = <<>>

\* variant that assigns unconditionally, for the sensitivity run of C8
AlwaysWrite(value, updatedMessage) == TRUE

\* if (repo.inputBox.value !== updatedMessage)
MustWrite(value, updatedMessage) == value # updatedMessage

\* updateCommitMessage from the comparison with repo.inputBox.value on
WriteBack(m, repo, updated) ==
  IF updated.threw THEN [threw |-> TRUE, m |-> m]
  ELSE IF MustWrite(m.box[repo], updated.value)
  THEN [threw |-> FALSE,
        m |-> LogLine([m EXCEPT !.box[repo] = updated.value,
                                !.wrote = @ \cup {repo}],
                      "Updating commit message", repo, m.box[repo])]
  ELSE [threw |-> FALSE, m |-> Log(m, "Commit message is already", repo)]

\* [threw, m]; hasMessage = FALSE is currentMessage === undefined
updateCommitMessage(m, repo, cfg, hasMessage, currentMessage) ==
  IF HeadIsEmpty(m.head[repo])
  THEN [threw |-> FALSE, m |-> Log(m, "HEAD is empty. Skipping", repo)]
  ELSE WriteBack(m, repo,
         getCommitMessage(m.head[repo],
                          IF hasMessage THEN currentMessage
                          ELSE extractCurrentMessage(m.box[repo], cfg),
                          cfg))

\* variant whose catch block logs nothing, for the sensitivity run of C10
CatchSilently(r, line, repo) == r.m

\* try { ... } catch (error) { this.log(...) } around a pass with result r
Catch(r, line, repo) ==
  IF r.threw THEN Log(r.m, line, repo) ELSE r.m

\* RepositoryWatcher.safeUpdateCommitMessage
safeUpdateCommitMessage(m, repo, cfg, hasMessage, currentMessage) ==
  Catch(updateCommitMessage(m, repo, cfg, hasMessage, currentMessage),
        "Error updating commit message", repo)

\* variant that runs the pass without storing newConfig, for the sensitivity
\* run of C14
updateConfigPassOnly(m, i, newConfig) ==
  safeUpdateCommitMessage(
    m, m.ws[i].repo, newConfig, TRUE,
    extractCurrentMessage(m.box[m.ws[i].repo], m.ws[i].config))

\* RepositoryWatcher.updateConfig of the watcher at index i
updateConfig(m, i, newConfig) ==
  safeUpdateCommitMessage(
    [m EXCEPT !.ws[i].config = newConfig], m.ws[i].repo, newConfig, TRUE,
    extractCurrentMessage(m.box[m.ws[i].repo], m.ws[i].config))

\* activate: updateRepositoryWatchers, from index i on
RECURSIVE updateRepositoryWatchers(_, _, _)
updateRepositoryWatchers(m, i, newConfig) ==
  IF i > Len(m.ws) THEN m
  ELSE updateRepositoryWatchers(updateConfig(m, i, newConfig), i + 1, newConfig)

\* RepositoryWatcher.dispose of the watcher at index i
dispose(m, i) ==
  Log([m EXCEPT !.subs[m.ws[i].repo] = @ - 1],
      "Stopped watching repository", m.ws[i].repo)

\* variant without the lookup of an existing watcher, for the sensitivity
\* run of C7
NoExistingWatcher(ws, repo) == FALSE

\* const existingWatcher = repoWatchers.find(...); if (existingWatcher)
ExistingWatcher(ws, repo) == WatcherIndex(ws, repo) # 0

\* variant whose constructor runs no initial update, for the sensitivity run
\* of C20
addRepoWatcherNoPass(m, repo, cfg) ==
  IF ExistingWatcher(m.ws, repo) THEN Log(m, "Already watching", repo)
  ELSE [Log(m, "Watching", repo)
        EXCEPT !.subs[repo] = @ + 1,
               !.ws = Append(@, [repo |-> repo, config |-> cfg])]

\* activate: addRepoWatcher, with the RepositoryWatcher constructor
addRepoWatcher(m, repo, cfg) ==
  IF ExistingWatcher(m.ws, repo) THEN Log(m, "Already watching", repo)
  ELSE [safeUpdateCommitMessage(
          [Log(m, "Watching", repo) EXCEPT !.subs[repo] = @ + 1],
          repo, cfg, FALSE, <<>>)
        EXCEPT !.ws = Append(@, [repo |-> repo, config |-> cfg])]

\* removeRepoWatcher with index = repoWatchers.findIndex(...)
RemoveWatcherAt(m, index) ==
  IF index = 0 THEN m
  ELSE [dispose(m, index) EXCEPT !.ws = RemoveAt(@, index)]

\* variant that leaves the watcher of a closed repository in place, for the
\* sensitivity run of C13
KeepRepoWatcher(m, repo) == m

\* activate: removeRepoWatcher
removeRepoWatcher(m, repo) == RemoveWatcherAt(m, WatcherIndex(m.ws, repo))

\* git.repositories.forEach(addRepoWatcher), from index i on
RECURSIVE AddAll(_, _, _, _)
AddAll(m, repos, i, cfg) ==
  IF i > Len(repos) THEN m
  ELSE AddAll(addRepoWatcher(m, repos[i], cfg), repos, i + 1, cfg)

\* the shutdown Disposable: while (repoWatchers.length > 0) pop and dispose
RECURSIVE DisposeAll(_)
DisposeAll(m) ==
  IF m.ws = <<>> THEN m
  ELSE DisposeAll([dispose(m, Len(m.ws)) EXCEPT !.ws = SubSeq(@, 1, Len(@) - 1)])

\* variant with the try/catch around the whole loop, for the sensitivity run
\* of C11
RECURSIVE CommandUntilFailure(_, _, _, _)
CommandUntilFailure(m, repos, i, cfg) ==
  IF i > Len(repos) THEN m
  ELSE IF updateCommitMessage(m, repos[i], cfg, FALSE, <<>>).threw
  THEN Log(m, "Error executing update command", repos[i])
  ELSE CommandUntilFailure(updateCommitMessage(m, repos[i], cfg, FALSE, <<>>).m,
                           repos, i + 1, cfg)

\* the command "jira-commit-message.update-message", from index i on
RECURSIVE CommandAll(_, _, _, _)
CommandAll(m, repos, i, cfg) ==
  IF i > Len(repos) THEN m
  ELSE CommandAll(Catch(updateCommitMessage(m, repos[i], cfg, FALSE, <<>>),
                        "Error executing update command", repos[i]),
                  repos, i + 1, cfg)

\* variant in which a change of one repository reaches the watchers of all,
\* for the sensitivity run of C21
RECURSIVE NotifyEvery(_, _, _)
NotifyEvery(m, repo, i) ==
  IF i > Len(m.ws) THEN m
  ELSE NotifyEvery(safeUpdateCommitMessage(m, m.ws[i].repo, m.ws[i].config,
                                           FALSE, <<>>),
                   repo, i + 1)

\* the listeners of repo.state.onDidChange: the watchers of repo, from index i on
RECURSIVE NotifyAll(_, _, _)
NotifyAll(m, repo, i) ==
  IF i > Len(m.ws) THEN m
  ELSE NotifyAll(IF m.ws[i].repo = repo
                 THEN safeUpdateCommitMessage(m, repo, m.ws[i].config, FALSE, <<>>)
                 ELSE m,
                 repo, i + 1)

(***************************************************************************)
(* Init: the state when activate() has returned, before git initialized    *)
(***************************************************************************)
DefaultSettings ==
  [commitMessagePrefixPattern |-> PatternML, commitMessageFormat |-> FormatBracket]

Resolve(st) ==
  getExtensionConfig(st.commitMessagePrefixPattern, st.commitMessageFormat)

NoCall == [branch |-> <<>>, message |-> <<>>, pattern |-> <<>>, format |-> <<>>]

Activated ==
  /\ settings = DefaultSettings
  /\ config = Resolve(DefaultSettings)
  /\ initialized = FALSE
  /\ hooked = FALSE
  /\ active = TRUE
  /\ repositories = <<>>
  /\ HEAD = [r \in Repos |-> NoBranch]
  /\ inputBox = [r \in Repos |-> <<>>]
  /\ repoWatchers = <<>>
  /\ subs = [r \in Repos |-> 0]
  /\ wrote = {}
  /\ outputChannel = <<>>

\* no RepositoryWatcher of the fs.watchFile kind is constructed
NoFileWatcher ==
  [created |-> FALSE, gitHeadWatcher |-> FALSE, refWatcher |-> <<>>,
   headWatched |-> FALSE, refWatched |-> {}, reads |-> <<>>, disposed |-> FALSE,
   delivered |-> 0, passOf |-> 0]

Init ==
  /\ Activated
  /\ call = NoCall
  /\ ret = <<>>
  /\ fileWatcher = NoFileWatcher

Start == Machine(HEAD, inputBox, repoWatchers, subs)

\* the handlers' effects become the next state
Handled(m) ==
  /\ inputBox' = m.box
  /\ repoWatchers' = m.ws
  /\ subs' = m.subs
  /\ wrote' = m.wrote
  /\ outputChannel' = m.log

Effects(m) ==
  /\ Handled(m)
  /\ UNCHANGED <<call, ret>>

Finish(m) ==
  /\ Effects(m)
  /\ UNCHANGED fileWatcher

IsOpen(r) == \E i \in 1..Len(repositories) : repositories[i] = r

(***************************************************************************)
(* Events of the host                                                      *)
(***************************************************************************)
\* the user edits the commit input box
Type(r, msg) ==
  /\ IsOpen(r)
  /\ inputBox[r] # msg
  /\ Finish([Start EXCEPT !.box[r] = msg])
  /\ UNCHANGED <<settings, config, initialized, hooked, active, repositories,
                 HEAD>>

\* the repository state changes (a checkout to b, or any other change when
\* b = HEAD[r]) and repo.state.onDidChange fires with the new state:
\* () => this.safeUpdateCommitMessage()
DidChange(r, b) ==
  /\ IsOpen(r)
  /\ HEAD' = [HEAD EXCEPT ![r] = b]
  /\ Finish(NotifyAll([Start EXCEPT !.head[r] = b], r, 1))
  /\ UNCHANGED <<settings, config, initialized, hooked, active, repositories>>

\* the git extension reaches the state "initialized": the .then callback
GitInitialized ==
  /\ ~initialized
  /\ initialized' = TRUE
  /\ hooked' = TRUE
  /\ Finish(AddAll(Start, repositories, 1, config))
  /\ UNCHANGED <<settings, config, active, repositories, HEAD>>

\* git.onDidOpenRepository; also fired for a repository that is already open
DidOpenRepository(r, b) ==
  /\ IF IsOpen(r)
     THEN /\ b = HEAD[r]
          /\ UNCHANGED <<repositories, HEAD>>
     ELSE /\ repositories' = Append(repositories, r)
          /\ HEAD' = [HEAD EXCEPT ![r] = b]
  /\ Finish(IF hooked
            THEN addRepoWatcher([Start EXCEPT !.head[r] = b], r, config)
            ELSE Start)
  /\ UNCHANGED <<settings, config, initialized, hooked, active>>

\* git.onDidCloseRepository; the closed Repository object is gone
DidCloseRepository(r) ==
  /\ IsOpen(r)
  /\ repositories' = SelectSeq(repositories, LAMBDA x : x # r)
  /\ HEAD' = [HEAD EXCEPT ![r] = NoBranch]
  /\ Finish([(IF hooked THEN removeRepoWatcher(Start, r) ELSE Start)
             EXCEPT !.box[r] = <<>>])
  /\ UNCHANGED <<settings, config, initialized, hooked, active>>

\* vscode.workspace.onDidChangeConfiguration after one setting was edited
ConfigurationHandler(newConfig) ==
  IF ~active \/ ~newConfig.ok
  THEN \* no subscription, or getExtensionConfig throws out of the handler
       /\ config' = config
       /\ Finish(Start)
  ELSE /\ config' = newConfig
       /\ Finish(updateRepositoryWatchers(
                   Log(Start, "Configuration changed", 0), 1, newConfig))

ChangePattern(p) ==
  /\ settings.commitMessagePrefixPattern # p
  /\ settings' = [settings EXCEPT !.commitMessagePrefixPattern = p]
  /\ ConfigurationHandler(Resolve(settings'))
  /\ UNCHANGED <<initialized, hooked, active, repositories, HEAD>>

ChangeFormat(f) ==
  /\ settings.commitMessageFormat # f
  /\ settings' = [settings EXCEPT !.commitMessageFormat = f]
  /\ ConfigurationHandler(Resolve(settings'))
  /\ UNCHANGED <<initialized, hooked, active, repositories, HEAD>>

\* the command "jira-commit-message.update-message"
UpdateMessageCommand ==
  /\ active
  /\ Finish(CommandAll(Start, repositories, 1, config))
  /\ UNCHANGED <<settings, config, initialized, hooked, active, repositories,
                 HEAD>>

\* the extension is deactivated: context.subscriptions are disposed
Shutdown ==
  /\ active
  /\ active' = FALSE
  /\ hooked' = FALSE
  /\ Finish(DisposeAll(Start))
  /\ UNCHANGED <<settings, config, initialized, repositories, HEAD>>

\* one step of the host, its inputs drawn from the given sets
Step(repos, patterns, formats, branches, messages) ==
  \/ \E r \in repos, msg \in messages : Type(r, msg)
  \/ \E r \in repos, b \in branches : DidChange(r, b)
  \/ GitInitialized
  \/ \E r \in repos, b \in branches : DidOpenRepository(r, b)
  \/ \E r \in repos : DidCloseRepository(r)
  \/ \E p \in patterns : ChangePattern(p)
  \/ \E f \in formats : ChangeFormat(f)
  \/ UpdateMessageCommand
  \/ Shutdown

\* one repository, every configuration, branch and message of the model
Next == Step({1}, Patterns, Formats, Branches, TypedMessages)

Spec == Init /\ [][Next]_vars

(***************************************************************************)
(* getCommitMessage as a function: applied to the arguments in call, then  *)
(* to its own result                                                       *)
(***************************************************************************)
CallBranches == {NoBranch, BranchFix, BranchML, BranchBY, BranchMain, BranchParen}

CallMessages ==
  {<<>>, MsgText, MsgFix, MsgStale, MsgStalePlain, MsgSpaced, MsgDollar, MsgTagged}

\* "ML-\d+-.*": a pattern without a capturing group
PatternNoGroup == <<"M", "L", "-", BS, "d", "+", "-", ".", "*">>

CallPatterns == {PatternML, PatternBY, PatternAny, PatternNoGroup}

CallFormats == {FormatBracket, FormatPlain}

CallConfig == getExtensionConfig(call.pattern, call.format)

InitCall ==
  /\ Activated
  /\ call \in [branch : CallBranches, message : CallMessages,
               pattern : CallPatterns, format : CallFormats]
  /\ ret = <<>>
  /\ fileWatcher = NoFileWatcher

Apply ==
  /\ Len(ret) < 2
  /\ ret' = Append(ret, getCommitMessage(
                          call.branch,
                          IF ret = <<>> THEN call.message ELSE ret[Len(ret)].value,
                          CallConfig))
  /\ UNCHANGED <<settings, config, initialized, hooked, active, repositories,
                 HEAD, inputBox, repoWatchers, subs, wrote, outputChannel, call,
                 fileWatcher>>

SpecCall == InitCall /\ [][Apply]_vars

\* several repositories, with fewer patterns, branches and messages
NextRepos ==
  Step(Repos, {PatternML, PatternAny}, {FormatBracket, FormatBad},
       {NoBranch, BranchML, BranchParen}, {MsgText})

SpecRepos == Init /\ [][NextRepos]_vars


(***************************************************************************)
(* The RepositoryWatcher of src/src/extension.ts: change notifications     *)
(* come from fs.watchFile on .git/HEAD and on the ref file of the branch,  *)
(* and the HEAD file is read with fs.readFile, whose callback runs later.  *)
(* One repository (1), whose .git/HEAD names the branch HEAD[1] or, when   *)
(* HEAD[1] is empty, holds a commit id.                                    *)
(***************************************************************************)
MaxReads == 2

\* the events delivered to the watcher are numbered up to MaxEvents:
\* fileWatcher.delivered is the number of the last one, fileWatcher.passOf
\* the number of the event whose pass ran last (0: the constructor)
MaxEvents == 3

FileRepo == 1

\* getBranchRefPath: the ref file of the branch, <<>> for null
getBranchRefPath(headContent) == headContent

\* fs.readFile(gitHeadPath, "utf8", callback): the callback is pending
ReadFile(w, kind, event) ==
  [w EXCEPT !.reads = Append(@, [kind |-> kind, event |-> event])]

\* the next event is delivered to a listener of the watcher
Deliver(w) == [w EXCEPT !.delivered = @ + 1]

\* the pass of the event runs
PassFor(w, event) == [w EXCEPT !.passOf = event]

\* RepositoryWatcher.setupWatchers
setupFileWatchers(w) ==
  ReadFile([w EXCEPT !.gitHeadWatcher = TRUE, !.headWatched = TRUE], "setup", 0)

\* RepositoryWatcher.setupRefWatcher: fs.unwatchFile of the old ref file,
\* fs.watchFile of the new one
setupRefWatcher(w, refPath) ==
  [w EXCEPT !.refWatched = (IF w.refWatcher # <<>> THEN @ \ {w.refWatcher} ELSE @)
                           \cup {refPath},
            !.refWatcher = refPath]

\* RepositoryWatcher.dispose
disposeFileWatcher(w) ==
  [w EXCEPT !.headWatched = IF w.gitHeadWatcher THEN FALSE ELSE @,
            !.refWatched = IF w.refWatcher # <<>> THEN @ \ {w.refWatcher} ELSE @]

\* the callback of fs.readFile in setupWatchers and handleGitHeadChange
ReadCallback(w, headContent) ==
  IF getBranchRefPath(headContent) # <<>>
  THEN setupRefWatcher(w, getBranchRefPath(headContent))
  ELSE w

\* a pass of the watcher: safeUpdateCommitMessage()
FilePass == safeUpdateCommitMessage(Start, FileRepo, config, FALSE, <<>>)

InitFile ==
  /\ Activated
  /\ call = NoCall
  /\ ret = <<>>
  /\ fileWatcher = NoFileWatcher

\* git.repositories.forEach(addRepoWatcher): new RepositoryWatcher(repo, ...)
FileCreate(b) ==
  /\ ~fileWatcher.created
  /\ repositories' = <<FileRepo>>
  /\ HEAD' = [HEAD EXCEPT ![FileRepo] = b]
  /\ fileWatcher' = setupFileWatchers([fileWatcher EXCEPT !.created = TRUE])
  /\ Effects(safeUpdateCommitMessage([Start EXCEPT !.head[FileRepo] = b],
                                     FileRepo, config, FALSE, <<>>))
  /\ UNCHANGED <<settings, config, initialized, hooked, active>>

\* a checkout rewrites .git/HEAD; the listener of fs.watchFile on it, when
\* there is one, runs handleGitHeadChange, which starts fs.readFile
FileCheckout(b) ==
  /\ fileWatcher.created
  /\ b # HEAD[FileRepo]
  /\ Len(fileWatcher.reads) < MaxReads
  /\ fileWatcher.delivered < MaxEvents
  /\ HEAD' = [HEAD EXCEPT ![FileRepo] = b]
  /\ fileWatcher' = IF fileWatcher.headWatched
                    THEN ReadFile(Deliver(fileWatcher), "head",
                                  fileWatcher.delivered + 1)
                    ELSE fileWatcher
  /\ Effects(Start)
  /\ UNCHANGED <<settings, config, initialized, hooked, active, repositories>>

\* a commit rewrites the ref file of the branch; the listener of fs.watchFile
\* on it, when there is one, runs safeUpdateCommitMessage
FileRefChanged ==
  /\ fileWatcher.created
  /\ HEAD[FileRepo] # NoBranch
  /\ fileWatcher.delivered < MaxEvents
  /\ fileWatcher' = IF HEAD[FileRepo] \in fileWatcher.refWatched
                    THEN PassFor(Deliver(fileWatcher), fileWatcher.delivered + 1)
                    ELSE fileWatcher
  /\ Effects(IF HEAD[FileRepo] \in fileWatcher.refWatched THEN FilePass ELSE Start)
  /\ UNCHANGED <<settings, config, initialized, hooked, active, repositories,
                 HEAD>>

\* the k-th pending fs.readFile completes and its callback runs
FileReadDone(k) ==
  /\ k \in 1..Len(fileWatcher.reads)
  /\ fileWatcher' = ReadCallback(
                      [(IF fileWatcher.reads[k].kind = "head"
                        THEN PassFor(fileWatcher, fileWatcher.reads[k].event)
                        ELSE fileWatcher)
                       EXCEPT !.reads = RemoveAt(@, k)],
                      HEAD[FileRepo])
  /\ Effects(IF fileWatcher.reads[k].kind = "head" THEN FilePass ELSE Start)
  /\ UNCHANGED <<settings, config, initialized, hooked, active, repositories,
                 HEAD>>

\* RepositoryWatcher.updateConfig; intervalChanged is
\* oldConfig.gitHeadWatchInterval !== newConfig.gitHeadWatchInterval
FileUpdateConfig(intervalChanged) ==
  /\ fileWatcher.created
  /\ ~fileWatcher.disposed
  /\ Len(fileWatcher.reads) < MaxReads
  /\ fileWatcher.delivered < MaxEvents
  /\ fileWatcher' = PassFor(Deliver(IF intervalChanged
                                    THEN setupFileWatchers(disposeFileWatcher(fileWatcher))
                                    ELSE fileWatcher),
                            fileWatcher.delivered + 1)
  /\ Effects(safeUpdateCommitMessage(
               IF intervalChanged
               THEN Log(Start, "Stopped watching repository", FileRepo)
               ELSE Start,
               FileRepo, config, TRUE,
               extractCurrentMessage(inputBox[FileRepo], config)))
  /\ UNCHANGED <<settings, config, initialized, hooked, active, repositories,
                 HEAD>>

\* the shutdown Disposable pops the watcher and disposes it
FileShutdown ==
  /\ fileWatcher.created
  /\ ~fileWatcher.disposed
  /\ active' = FALSE
  /\ fileWatcher' = [disposeFileWatcher(fileWatcher) EXCEPT !.disposed = TRUE]
  /\ Effects(Log(Start, "Stopped watching repository", FileRepo))
  /\ UNCHANGED <<settings, config, initialized, hooked, repositories, HEAD>>

\* the user edits the commit input box
FileType(msg) ==
  /\ fileWatcher.created
  /\ inputBox[FileRepo] # msg
  /\ Effects([Start EXCEPT !.box[FileRepo] = msg])
  /\ UNCHANGED <<settings, config, initialized, hooked, active, repositories,
                 HEAD, fileWatcher>>

NextFile ==
  \/ \E b \in {NoBranch, BranchML, BranchBY} : FileCreate(b)
  \/ \E b \in {NoBranch, BranchML, BranchBY} : FileCheckout(b)
  \/ FileRefChanged
  \/ \E k \in 1..MaxReads : FileReadDone(k)
  \/ \E c \in BOOLEAN : FileUpdateConfig(c)
  \/ FileShutdown
  \/ \E msg \in {MsgText, MsgTagged} : FileType(msg)

SpecFile == InitFile /\ [][NextFile]_vars

(***************************************************************************)
(* A Watcher whose every write of repo.inputBox.value comes back to it as  *)
(* a change notification: the branch and the configuration stay as Init    *)
(* chose them, ret records the input box after each pass.                  *)
(***************************************************************************)
MaxPasses == 4

InitLoop ==
  /\ settings \in [commitMessagePrefixPattern : CallPatterns,
                   commitMessageFormat : CallFormats]
  /\ config = Resolve(settings)
  /\ initialized = TRUE
  /\ hooked = TRUE
  /\ active = TRUE
  /\ repositories = <<FileRepo>>
  /\ \E b \in {BranchML, BranchBY} :
       HEAD = [r \in Repos |-> IF r = FileRepo THEN b ELSE NoBranch]
  /\ \E msg \in CallMessages :
       inputBox = [r \in Repos |-> IF r = FileRepo THEN msg ELSE <<>>]
  /\ repoWatchers = <<[repo |-> FileRepo, config |-> config]>>
  /\ subs = [r \in Repos |-> IF r = FileRepo THEN 1 ELSE 0]
  /\ wrote = {}
  /\ outputChannel = <<>>
  /\ call = NoCall
  /\ ret = <<>>
  /\ fileWatcher = NoFileWatcher

\* repo.state.onDidChange fires: the first time, and after every write
LoopNotify ==
  /\ Len(ret) < MaxPasses
  /\ ret = <<>> \/ FileRepo \in wrote
  /\ Handled(NotifyAll(Start, FileRepo, 1))
  /\ ret' = Append(ret, [threw |-> \E i \in 1..Len(outputChannel') :
                                      outputChannel'[i].line
                                        = "Error updating commit message",
                         value |-> inputBox'[FileRepo]])
  /\ UNCHANGED <<settings, config, initialized, hooked, active, repositories,
                 HEAD, call, fileWatcher>>

SpecLoop == InitLoop /\ [][LoopNotify]_vars

(***************************************************************************)
(* The events that reach the watchers when nobody edits the input box:     *)
(* the buffer holds only what synchronization passes wrote                 *)
(***************************************************************************)
NextEvents ==
  \/ \E b \in Branches : DidChange(1, b)
  \/ GitInitialized
  \/ \E b \in Branches : DidOpenRepository(1, b)
  \/ \E p \in Patterns : ChangePattern(p)
  \/ \E f \in Formats : ChangeFormat(f)
  \/ UpdateMessageCommand

SpecEvents == Init /\ [][NextEvents]_vars

(***************************************************************************)
(* extractCurrentMessage as a function: applied to the format of call      *)
(* filled in, character for character, with the prefix of call.branch and  *)
(* with call.message                                                       *)
(***************************************************************************)
\* "${message} [${prefix}]"
FormatSuffix ==
  <<"$", "{", "m", "e", "s", "s", "a", "g", "e", "}", " ", "[",
    "$", "{", "p", "r", "e", "f", "i", "x", "}", "]">>

ExtractFormats == {FormatBracket, FormatPlain, FormatSuffix}

ExtractMessages == {<<>>, MsgText, MsgFix, MsgStale, MsgDollar}

\* the first occurrence of pat in s replaced by text, without any expansion
Fill(s, pat, text) ==
  IF IndexOf(s, pat) = 0 THEN s
  ELSE SubSeq(s, 1, IndexOf(s, pat) - 1) \o text
         \o SubSeq(s, IndexOf(s, pat) + Len(pat), Len(s))

\* the value of repo.inputBox.value that extractCurrentMessage is given
Tagged(format, prefix, message) ==
  Fill(Fill(format, PrefixPlaceholder, prefix), MessagePlaceholder, message)

InitExtract ==
  /\ Activated
  /\ call \in [branch : {BranchML, BranchBY, BranchFix}, message : ExtractMessages,
               pattern : CallPatterns \ {PatternNoGroup}, format : ExtractFormats]
  /\ ret = <<>>
  /\ fileWatcher = NoFileWatcher

ApplyExtract ==
  /\ ret = <<>>
  /\ Test(CallConfig.commitMessagePrefixPattern, call.branch)
  /\ ret' = <<[threw |-> FALSE,
               value |-> extractCurrentMessage(
                           Tagged(call.format,
                                  Group(Exec(CallConfig.commitMessagePrefixPattern,
                                             call.branch),
                                        call.branch, 1),
                                  call.message),
                           CallConfig)]>>
  /\ UNCHANGED <<settings, config, initialized, hooked, active, repositories,
                 HEAD, inputBox, repoWatchers, subs, wrote, outputChannel, call,
                 fileWatcher>>

SpecExtract == InitExtract /\ [][ApplyExtract]_vars

(***************************************************************************)
(* Vocabulary of the properties                                            *)
(***************************************************************************)
Has(log, line, r) ==
  \E i \in 1..Len(log) : log[i].line = line /\ log[i].repo = r

\* a synchronization pass on r ran to its end in the step that wrote log
PassDone(log, r) ==
  \/ Has(log, "Updating commit message", r)
  \/ Has(log, "Commit message is already", r)

\* a synchronization pass on r threw in the step that wrote log
PassFailed(log, r) ==
  \/ Has(log, "Error updating commit message", r)
  \/ Has(log, "Error executing update command", r)

\* a synchronization pass on r was started in the step that wrote log
PassRan(log, r) ==
  \/ PassDone(log, r)
  \/ PassFailed(log, r)
  \/ Has(log, "HEAD is empty. Skipping", r)

Watched(ws, r) == \E i \in 1..Len(ws) : ws[i].repo = r

\* text put in the place of the first occurrence of pat, character for character
Literal(s, pat, text) ==
  LET i == IndexOf(s, pat)
  IN  IF i = 0 THEN s
      ELSE SubSeq(s, 1, i - 1) \o text \o SubSeq(s, i + Len(pat), Len(s))

\* the format with ${prefix} replaced by prefix and ${message} by message
Formatted(format, prefix, message) ==
  Literal(Literal(format, PrefixPlaceholder, prefix), MessagePlaceholder, message)

\* "[" prefix "] "
Tag(prefix) == <<"[">> \o prefix \o <<"]", " ">>

\* message is the configured format applied with some prefix: the whole of it
\* matches outdatedPrefixPattern
IsApplied(message, cfg) ==
  LET m == Exec(cfg.outdatedPrefixPattern, message)
  IN  m.ok /\ m.from = 1 /\ m.end = Len(message) + 1

AppliedPrefix(message, cfg) ==
  Group(Exec(cfg.outdatedPrefixPattern, message), message, 1)

AppliedBody(message, cfg) ==
  Group(Exec(cfg.outdatedPrefixPattern, message), message, 2)

\* message carries no applied prefix anywhere
Untagged(message, cfg) == ~Test(cfg.outdatedPrefixPattern, message)

Matches(branch, cfg) == Test(cfg.commitMessagePrefixPattern, branch)

PrefixOf(branch, cfg) ==
  Group(Exec(cfg.commitMessagePrefixPattern, branch), branch, 1)

(***************************************************************************)
(* C1: a synchronization pass on a non-empty branch that does not match    *)
(* config.prefixPattern leaves the message buffer unchanged, whatever the  *)
(* buffer holds.                                                           *)
(***************************************************************************)
C1_NonMatchingBranchKeepsMessage ==
  [][\A r \in Repos :
       (/\ PassRan(outputChannel', r)
        /\ HEAD'[r] # NoBranch
        /\ ~Matches(HEAD'[r], config'))
       => inputBox'[r] = inputBox[r]]_vars

(***************************************************************************)
(* C2: on a matching branch with captured prefix p and a message m that    *)
(* carries no applied prefix, getCommitMessage returns the format with     *)
(* ${prefix} replaced by p and ${message} replaced by the trimmed m.       *)
(***************************************************************************)
C2_RendersFormat ==
  (/\ Len(ret) >= 1
   /\ ~ret[1].threw
   /\ Matches(call.branch, CallConfig)
   /\ Untagged(call.message, CallConfig)
   /\ ~OccursAt(call.message, Tag(PrefixOf(call.branch, CallConfig)), 1))
  => ret[1].value = Formatted(call.format, PrefixOf(call.branch, CallConfig),
                              Trim(call.message))

(***************************************************************************)
(* C3: getCommitMessage is idempotent: applied to its own result under the *)
(* same branch and configuration it returns that result.                   *)
(***************************************************************************)
C3_Idempotent ==
  (Len(ret) = 2 /\ ~ret[1].threw) => ret[2] = ret[1]

(***************************************************************************)
(* C4: when the branch yields prefix p and the message is the configured   *)
(* format applied with another prefix q around an untagged body b, the     *)
(* pass makes the message the format applied with p around b: the body is  *)
(* never lost.                                                             *)
(***************************************************************************)
C4_RetagKeepsBody ==
  [][\A r \in Repos :
       (/\ PassDone(outputChannel', r)
        /\ Matches(HEAD'[r], config')
        /\ IsApplied(inputBox[r], config')
        /\ AppliedPrefix(inputBox[r], config') # PrefixOf(HEAD'[r], config')
        /\ Untagged(AppliedBody(inputBox[r], config'), config'))
       => inputBox'[r] = Formatted(config'.commitMessageFormat,
                                   PrefixOf(HEAD'[r], config'),
                                   Trim(AppliedBody(inputBox[r], config')))]_vars

(***************************************************************************)
(* C5: when a configuration change replaces the prefix pattern while a     *)
(* watched buffer holds the old format applied around an untagged message  *)
(* and the branch matches the new pattern, the pass of the config-update   *)
(* path makes the buffer the new format applied to that message, without   *)
(* the old prefix, and the watcher holds the new configuration.            *)
(***************************************************************************)
C5_ConfigUpdateRetags ==
  [][\A r \in Repos :
       (/\ config'.commitMessagePrefixPattern # config.commitMessagePrefixPattern
        /\ Watched(repoWatchers, r)
        /\ PassDone(outputChannel', r)
        /\ Matches(HEAD[r], config')
        /\ IsApplied(inputBox[r], config)
        /\ Untagged(AppliedBody(inputBox[r], config), config)
        /\ Untagged(AppliedBody(inputBox[r], config), config'))
       => /\ inputBox'[r] = Formatted(config'.commitMessageFormat,
                                      PrefixOf(HEAD[r], config'),
                                      Trim(AppliedBody(inputBox[r], config)))
          /\ \/ AppliedPrefix(inputBox[r], config) = PrefixOf(HEAD[r], config')
             \/ IndexOf(inputBox'[r], Tag(AppliedPrefix(inputBox[r], config))) = 0
          /\ \A i \in 1..Len(repoWatchers') :
               repoWatchers'[i].config = config']_vars

(***************************************************************************)
(* C6: with no current branch every synchronization pass leaves the        *)
(* message buffer as it is, whatever it holds, and logs no error.          *)
(***************************************************************************)
C6_NoBranchNoChange ==
  [][\A r \in Repos :
       (HEAD'[r] = NoBranch /\ PassRan(outputChannel', r))
       => /\ inputBox'[r] = inputBox[r]
          /\ r \notin wrote'
          /\ ~PassFailed(outputChannel', r)]_vars

\* a pass skipped a buffer that carries an applied prefix
C6_Witness ==
  \E r \in Repos :
    /\ HEAD[r] = NoBranch
    /\ Has(outputChannel, "HEAD is empty. Skipping", r)
    /\ IsApplied(inputBox[r], config)

(***************************************************************************)
(* C7: there is at most one Watcher per repository, holding the one        *)
(* subscription to that repository.                                        *)
(***************************************************************************)
WatchersOf(ws, r) == {i \in 1..Len(ws) : ws[i].repo = r}

C7_OneWatcherPerRepository ==
  \A r \in Repos :
    /\ Cardinality(WatchersOf(repoWatchers, r)) <= 1
    /\ subs[r] = Cardinality(WatchersOf(repoWatchers, r))

\* an open event arrived for a repository that is watched already
C7_Witness ==
  \E r \in Repos :
    /\ Has(outputChannel, "Already watching", r)
    /\ Len(repoWatchers) = 2

(***************************************************************************)
(* C8: a pass assigns the message buffer only a value that differs from    *)
(* the one it holds; a pass whose computed message equals the buffer       *)
(* assigns nothing.                                                        *)
(***************************************************************************)
C8_WritesOnlyChanges ==
  [][\A r \in Repos :
       /\ r \in wrote' => inputBox'[r] # inputBox[r]
       /\ Has(outputChannel', "Commit message is already", r) => r \notin wrote']_vars

\* a pass found a non-empty buffer up to date and assigned nothing
C8_Witness ==
  \E r \in Repos :
    /\ Has(outputChannel, "Commit message is already", r)
    /\ inputBox[r] # <<>>
    /\ r \notin wrote

(***************************************************************************)
(* C9: a configuration change whose pattern or format does not compile is  *)
(* reported to the output channel and leaves the configuration, the        *)
(* watchers and the message buffers as they are.                           *)
(***************************************************************************)
C9_BadSettingsReported ==
  [][(active /\ settings' # settings /\ ~Resolve(settings').ok)
     => /\ config' = config
        /\ repoWatchers' = repoWatchers
        /\ inputBox' = inputBox
        /\ outputChannel' # <<>>]_vars

(***************************************************************************)
(* C10: a pass of a Watcher that throws is caught and logged, leaves the   *)
(* buffer as it is and the Watcher subscribed; every checkout of a watched *)
(* repository and every configuration change runs a pass of its Watcher.   *)
(***************************************************************************)
Throws(branch, value, cfg) ==
  /\ branch # NoBranch
  /\ getCommitMessage(branch, extractCurrentMessage(value, cfg), cfg).threw

C10_FailedPassIsContained ==
  [][\A r \in Repos :
       /\ Has(outputChannel', "Error updating commit message", r)
          => /\ inputBox'[r] = inputBox[r]
             /\ r \notin wrote'
             /\ Watched(repoWatchers', r)
             /\ subs'[r] = 1
       /\ (HEAD'[r] # HEAD[r] /\ Watched(repoWatchers, r) /\ Watched(repoWatchers', r))
          => /\ PassRan(outputChannel', r)
             /\ Throws(HEAD'[r], inputBox[r], config)
                => Has(outputChannel', "Error updating commit message", r)
       /\ (config' # config /\ Watched(repoWatchers, r))
          => PassRan(outputChannel', r)]_vars

\* a pass of the Watcher of r threw and the Watcher is still there
C10_Witness ==
  \E r \in Repos :
    /\ Has(outputChannel, "Error updating commit message", r)
    /\ Watched(repoWatchers, r)
    /\ inputBox[r] # <<>>

(***************************************************************************)
(* C11: the command runs exactly one pass for every repository of          *)
(* git.repositories, on its present branch and input box under the current *)
(* configuration; a pass that throws is reported for its repository and    *)
(* the passes of the other repositories are run all the same.              *)
(***************************************************************************)
PassLines(log, r) ==
  {i \in 1..Len(log) :
     /\ log[i].repo = r
     /\ log[i].line \in {"HEAD is empty. Skipping", "Updating commit message",
                         "Commit message is already",
                         "Error updating commit message",
                         "Error executing update command"}}

C11_CommandPassesEveryRepository ==
  [][(/\ HEAD' = HEAD /\ repositories' = repositories /\ settings' = settings
      /\ repoWatchers' = repoWatchers
      /\ UpdateMessageCommand)
     => \A r \in Repos :
          /\ Cardinality(PassLines(outputChannel', r)) = (IF IsOpen(r) THEN 1 ELSE 0)
          /\ (IsOpen(r) /\ Throws(HEAD[r], inputBox[r], config))
             => /\ Has(outputChannel', "Error executing update command", r)
                /\ inputBox'[r] = inputBox[r]
          /\ (IsOpen(r) /\ HEAD[r] # NoBranch /\ ~Throws(HEAD[r], inputBox[r], config))
             => /\ PassDone(outputChannel', r)
                /\ inputBox'[r] =
                     getCommitMessage(HEAD[r],
                                      extractCurrentMessage(inputBox[r], config),
                                      config).value]_vars

\* the pass of one repository threw and the pass of a later one wrote
C11_Witness ==
  \E r, q \in Repos :
    /\ Len(outputChannel) = 2
    /\ outputChannel[1].line = "Error executing update command"
    /\ outputChannel[1].repo = r
    /\ outputChannel[2].line = "Updating commit message"
    /\ outputChannel[2].repo = q
    /\ q # r

(***************************************************************************)
(* C12: once a Watcher is disposed its subscriptions are released and it   *)
(* neither runs a pass, nor writes the message buffer, nor installs a new  *)
(* subscription, whatever callback of it is still to come.                 *)
(***************************************************************************)
C12_DisposedIsTerminal ==
  [][fileWatcher.disposed
     => /\ ~PassRan(outputChannel', FileRepo)
        /\ wrote' = {}
        /\ ~fileWatcher'.headWatched
        /\ fileWatcher'.refWatched = {}]_vars

(***************************************************************************)
(* C13: closing a watched repository disposes its Watcher and removes it   *)
(* from repoWatchers, so that no Watcher is left for a closed repository   *)
(* and a later configuration change runs no pass on it; the shutdown       *)
(* disposes every Watcher that is left.                                    *)
(***************************************************************************)
IsIn(repos, r) == \E i \in 1..Len(repos) : repos[i] = r

C14_WatchersHoldCurrentConfig ==
  [][/\ \A i \in 1..Len(repoWatchers') : repoWatchers'[i].config = config'
     /\ Has(outputChannel', "Configuration changed", 0)
        => /\ config' = Resolve(settings')
           /\ \A r \in Repos :
                Cardinality(PassLines(outputChannel', r))
                  = (IF Watched(repoWatchers, r) THEN 1 ELSE 0)]_vars

\* two Watchers, one of them created after the change, hold a configuration
\* that is not the initial one
C14_Witness ==
  /\ Len(repoWatchers) = 2
  /\ config # Resolve(DefaultSettings)
  /\ \E r \in Repos : Has(outputChannel, "Watching", r)
  /\ \A i \in 1..Len(repoWatchers) : repoWatchers[i].config = config

(***************************************************************************)
(* C15: when the branch matches the prefix pattern and the match has no    *)
(* value for the first capture group, getCommitMessage returns             *)
(* currentMessage unchanged.                                               *)
(***************************************************************************)
NoGroupValue(branch, cfg) ==
  /\ Matches(branch, cfg)
  /\ \/ Len(Exec(cfg.commitMessagePrefixPattern, branch).caps) = 0
     \/ Exec(cfg.commitMessagePrefixPattern, branch).caps[1].to = 0

C15_NoGroupNoPrefix ==
  (Len(ret) >= 1 /\ NoGroupValue(call.branch, CallConfig))
  => (~ret[1].threw /\ ret[1].value = call.message)

(***************************************************************************)
(* C16: when every write of a pass notifies the Watcher again, the chain   *)
(* of passes comes to a pass that writes nothing; the pass that follows a  *)
(* pass which rendered the format for the branch writes nothing.           *)
(***************************************************************************)
C16_NoFeedbackLoop ==
  /\ Len(ret) = MaxPasses => wrote = {}
  /\ (Len(ret) = 2 /\ Matches(HEAD[FileRepo], config)) => wrote = {}

(***************************************************************************)
(* C17: the passes of one repository run in the order in which their       *)
(* events were delivered: no pass runs for an event delivered before the   *)
(* event of a pass that has run already.                                   *)
(***************************************************************************)
C17_PassesInDeliveryOrder ==
  [][fileWatcher'.passOf >= fileWatcher.passOf]_vars

(***************************************************************************)
(* C18: for a format with both placeholders, in either order, a prefix     *)
(* matched by the prefix pattern and a trimmed one-line message,           *)
(* extractCurrentMessage gives the message back from the format rendered   *)
(* with them.                                                              *)
(***************************************************************************)
C18_ExtractInvertsRender ==
  (/\ Len(ret) = 1
   /\ IndexOf(call.format, PrefixPlaceholder) # 0
   /\ IndexOf(call.format, MessagePlaceholder) # 0
   /\ call.message = Trim(call.message))
  => ret[1].value = call.message

\* the prefixes a pass can apply: group 1 of a pattern on a branch it matches
BranchPrefixes ==
  {PrefixOf(b, getExtensionConfig(p, FormatBracket)) :
     <<p, b>> \in {x \in (Patterns \ {PatternBad}) \X (Branches \ {NoBranch}) :
                     Matches(x[2], getExtensionConfig(x[1], FormatBracket))}}

\* the number of places of message where a prefix of a branch stands
PrefixCount(message) ==
  Cardinality({x \in (1..Len(message)) \X BranchPrefixes :
                 OccursAt(message, x[2], x[1])})

(***************************************************************************)
(* C19: over any sequence of branch changes (to and from no branch and     *)
(* non-matching branches included), configuration changes and passes,      *)
(* starting from a buffer with at most one applied prefix, the buffer      *)
(* never carries more than one applied prefix; a configuration change      *)
(* while no branch is checked out followed by the checkout of a matching   *)
(* branch does not leave the old and the new prefix in the message.        *)
(***************************************************************************)
C19_NoCompounding == \A r \in Repos : PrefixCount(inputBox[r]) <= 1

\* what one pass on branch under cfg makes of the buffer value before
PassOutcome(r, branch, before, after, expected, log) ==
  /\ Cardinality(PassLines(log, r)) = 1
  /\ IF branch = NoBranch THEN after = before /\ Has(log, "HEAD is empty. Skipping", r)
     ELSE IF expected.threw THEN after = before /\ PassFailed(log, r)
     ELSE after = expected.value /\ PassDone(log, r)

\* one pass on r in this step, on the branch r has now and the buffer as it
\* was when the step began
FreshPass(r) ==
  PassOutcome(r, HEAD'[r], inputBox[r], inputBox'[r],
              getCommitMessage(HEAD'[r],
                               extractCurrentMessage(inputBox[r], config),
                               config),
              outputChannel')

(***************************************************************************)
(* C20: a repository that becomes known (open when the git extension is    *)
(* initialized, or reported by an open event) and has no Watcher gets one, *)
(* subscribed to the repository's changes, which at once runs exactly one  *)
(* pass on the current branch and the buffer as read then; every later     *)
(* change notification runs one pass that reads the buffer again.          *)
(***************************************************************************)
C20_CreationAndNotificationPass ==
  [][\A r \in Repos :
       /\ (~initialized /\ initialized' /\ IsIn(repositories, r))
          => Watched(repoWatchers', r)
       /\ (hooked /\ ~IsIn(repositories, r) /\ IsIn(repositories', r))
          => Watched(repoWatchers', r)
       /\ (~Watched(repoWatchers, r) /\ Watched(repoWatchers', r))
          => /\ subs'[r] = 1
             /\ Has(outputChannel', "Watching", r)
             /\ FreshPass(r)
       /\ (/\ Watched(repoWatchers, r)
           /\ IsIn(repositories, r) /\ IsIn(repositories', r)
           /\ HEAD'[r] # HEAD[r])
          => FreshPass(r)
       /\ (/\ Watched(repoWatchers, r) /\ Watched(repoWatchers', r)
           /\ config' = config
           /\ PassRan(outputChannel', r))
          => FreshPass(r)]_vars

\* the Watcher of a repository opened before the git extension was
\* initialized is created over a buffer the user had typed into, and tags it
C20_Witness ==
  \E r \in Repos :
    /\ Has(outputChannel, "Watching", r)
    /\ Has(outputChannel, "Updating commit message", r)
    /\ subs[r] = 1
    /\ HEAD[r] = BranchML
    /\ inputBox[r] = Tag(PrefixOf(BranchML, config)) \o MsgText

\* the Watchers of r, as values
WatcherStates(ws, r) == {ws[i] : i \in WatchersOf(ws, r)}

\* this step ran no pass on q and left q's buffer, Watcher and subscription
\* as they were
Untouched(q) ==
  /\ ~PassRan(outputChannel', q)
  /\ inputBox'[q] = inputBox[q]
  /\ subs'[q] = subs[q]
  /\ WatcherStates(repoWatchers', q) = WatcherStates(repoWatchers, q)

(***************************************************************************)
(* C21: repositories are independent: a change notification, an initial    *)
(* pass or a failed pass of the Watcher of a repository reads only that    *)
(* repository's branch and buffer, leaves the buffer, the Watcher and the   *)
(* subscription of every other repository unchanged, and leaves the shared *)
(* current configuration unchanged.                                        *)
(***************************************************************************)
C21_RepositoriesAreIndependent ==
  [][\A r \in Repos :
       \* a change notification of r
       /\ (/\ repositories' = repositories
           /\ HEAD'[r] # HEAD[r])
          => /\ config' = config
             /\ Watched(repoWatchers, r) => FreshPass(r)
             /\ \A q \in Repos \ {r} : Untouched(q)
       \* the initial pass of the Watcher that an open event creates for r
       /\ (/\ initialized /\ hooked
           /\ ~Watched(repoWatchers, r) /\ Watched(repoWatchers', r))
          => /\ config' = config
             /\ FreshPass(r)
             /\ \A q \in Repos \ {r} : Untouched(q)
       \* a pass of r that fails, alone or next to the passes of the command
       /\ (/\ settings' = settings /\ initialized' = initialized
           /\ PassFailed(outputChannel', r))
          => /\ config' = config
             /\ inputBox'[r] = inputBox[r]
             /\ \A q \in Repos \ {r} :
                  /\ subs'[q] = subs[q]
                  /\ WatcherStates(repoWatchers', q) = WatcherStates(repoWatchers, q)
                  /\ IF PassRan(outputChannel', q) THEN FreshPass(q)
                     ELSE inputBox'[q] = inputBox[q]]_vars

\* the Watcher of one repository has failed a pass while the other repository,
\* watched too, keeps a tagged message
C21_Witness ==
  \E r \in Repos, q \in Repos :
    /\ r # q
    /\ Len(repoWatchers) = 2
    /\ Has(outputChannel, "Error updating commit message", r)
    /\ ~PassRan(outputChannel, q)
    /\ HEAD[q] = BranchML
    /\ inputBox[q] = Tag(PrefixOf(BranchML, config)) \o MsgText

====
